---- MODULE Spec2Model ----
(***************************************************************************)
(* Round lifecycle, wager intake and settlement of the colour betting game *)
(* (server/routes.ts on top of MemStorage, server/storage.ts).             *)
(*                                                                         *)
(* Every handler is an async function; it runs without interruption up to  *)
(* its next `await` and may be interleaved with other handlers there.  A   *)
(* MemStorage method reads or writes its map synchronously when called, so *)
(* one step of the model is: the code after one await, up to and including *)
(* the next storage call.                                                  *)
(*                                                                         *)
(* Time is a discrete clock; ROUND_DURATION is ROUND_DURATION_MS in ticks. *)
(***************************************************************************)
EXTENDS Integers, Sequences, FiniteSets, Bags, TLC

VARIABLES now, users, gameRounds, bets, transactions, req, task, timeouts, intervalDue

vars == <<now, users, gameRounds, bets, transactions, req, task, timeouts, intervalDue>>

(* ------------------------------ bounds -------------------------------- *)
\* bet requests followed, rounds created, last instant of the clock
MaxReq == 1
MaxRounds == 1
MaxTime == 1

\* reqs, rounds, time: as above; tasks: engine handlers (timer callbacks) in flight
\* at once.  Spec runs the engine's handlers one at a time, interleaved with the
\* bet requests and the clock; the other specifications widen one bound each.
Bounds == [reqs |-> MaxReq, rounds |-> MaxRounds, tasks |-> 1, time |-> MaxTime]
\* two engine handlers may overlap
RaceBounds == [Bounds EXCEPT !.tasks = 2]
\* one more bet request
TwoBounds == [Bounds EXCEPT !.reqs = MaxReq + 1]
\* one more round, and the time for the interval to fire twice
EarlyBounds == [Bounds EXCEPT !.rounds = MaxRounds + 1, !.time = MaxTime + 2]

(* --------------------------- program constants ------------------------ *)
ROUND_DURATION == 1
StartBalance == 1000

colors == <<"red", "green", "violet">>
Colors == {colors[i] : i \in 1..Len(colors)}

\* users present after start-up: 1 = admin (MemStorage constructor), 2 = demo
UserIds == {1, 2}
\* the session user of the bet requests
Bettors == {2}
\* colours the requests carry (green is paid like red)
BetColors == {"red", "violet"}
\* stakes the requests carry (betSchema: any positive number)
Amounts == {600, 1200}
\* what a request body may carry: the above, a zero stake and an unknown colour
BodyAmounts == Amounts \cup {0}
BodyColors == BetColors \cup {"blue"}

NoProfit == -1
NoRound == 0

\* the clock value that stands for every instant after B.time
LateTime(B) == B.time + ROUND_DURATION

(* ------------------------------ pure code ----------------------------- *)
\* the schema with a zero amount let through
betSchemaNonNegative(d) == /\ d.roundId \in Int
                           /\ d.color \in {"red", "green", "violet"}
                           /\ d.amount >= 0

\* betSchema: roundId a number, color one of the enum, amount positive
betSchema(d) == /\ d.roundId \in Int
                /\ d.color \in {"red", "green", "violet"}
                /\ d.amount > 0

\* the balance check left out
NoBalanceCheck(balance, amount) == FALSE

\* routes.ts 214: if (user.balance < betData.amount) -> "Insufficient balance"
InsufficientBalance(balance, amount) == balance < amount

\* the time check with > for >=
RoundEndedStrict(t, endTime) == t > endTime

\* routes.ts 226: if (now >= round.endTime) -> "Betting for this round has ended"
RoundEnded(t, endTime) == t >= endTime

\* routes.ts 231-236 and 526-531: multiplier of a colour
Multiplier(color) == IF color = "red" \/ color = "green" THEN 2
                     ELSE IF color = "violet" THEN 4 ELSE 1

\* every colour paid double
PotentialDouble(color, amount) == amount * 2

\* routes.ts 238
Potential(color, amount) == amount * Multiplier(color)

\* routes.ts 251-252
BetBalanceAfter(balanceBefore, amount) == balanceBefore - amount

\* the win credited as the profit instead of the full potential
WinBalanceProfit(balance, bet) == balance + (bet.potential - bet.amount)

\* routes.ts 558
WinBalance(balance, bet) == balance + bet.potential

\* routes.ts 555
WinProfit(bet) == bet.potential - bet.amount

\* the comparison inverted
WonInverted(bet, result) == bet.color # result

\* routes.ts 549
Won(bet, result) == bet.color = result

\* the skip test inverted
SkippedPending(bet) == bet.status = "pending"

\* routes.ts 544: if (bet.status !== "pending") continue
Skipped(bet) == bet.status # "pending"

\* storage.ts 149-156: the first stored round with startTime <= now <= endTime
IsActive(round, t) == round.startTime <= t /\ round.endTime >= t

getActiveGameRound(t) ==
    LET act == {i \in 1..Len(gameRounds) : IsActive(gameRounds[i], t)}
    IN IF act = {} THEN NoRound ELSE CHOOSE i \in act : \A j \in act : i <= j

\* storage.ts 145-147, reduced to the one field the bet route reads; NoRound when
\* the id is not stored (a stored endTime is at least ROUND_DURATION, never NoRound)
getGameRoundEndTime(id) ==
    IF id \in 1..Len(gameRounds) THEN gameRounds[id].endTime ELSE NoRound

\* storage.ts 199-202
getBetsByRound(roundId) == SelectSeq(bets, LAMBDA b : b.roundId = roundId)

(* ----------------------- storage writes (MemStorage) ------------------ *)
\* storage.ts 174-186
createBet(b) == Append(bets, [b EXCEPT !.id = Len(bets) + 1, !.createdAt = now])

\* storage.ts 204-211
updateBet(id, status, profit) ==
    [bets EXCEPT ![id] = [@ EXCEPT !.status = status, !.profit = profit]]

\* storage.ts 111-123 (only the balance is ever updated)
updateUser(id, balance) == [users EXCEPT ![id] = balance]

\* the transaction stored under the id of the last one (transactionId not advanced)
createTransactionSameId(tx) ==
    IF transactions = <<>> THEN <<[tx EXCEPT !.id = 1]>>
    ELSE [transactions EXCEPT ![Len(transactions)] = [tx EXCEPT !.id = Len(transactions)]]
\* storage.ts 214-226
createTransaction(tx) == Append(transactions, [tx EXCEPT !.id = Len(transactions) + 1])

\* the roundNumber 0 that createNewRound passes kept as it is
createGameRoundAsGiven(start, end) ==
    Append(gameRounds, [id |-> Len(gameRounds) + 1, roundNumber |-> 0,
                        startTime |-> start, endTime |-> end,
                        result |-> "", multiplier |-> 0])

\* storage.ts 126-143: id and roundNumber come from the store's counters
createGameRound(start, end) ==
    Append(gameRounds, [id |-> Len(gameRounds) + 1, roundNumber |-> Len(gameRounds) + 1,
                        startTime |-> start, endTime |-> end,
                        result |-> "", multiplier |-> 0])

\* storage.ts 164-171
updateGameRound(id, result, multiplier) ==
    [gameRounds EXCEPT ![id] = [@ EXCEPT !.result = result, !.multiplier = multiplier]]

(* ------------------------------ state --------------------------------- *)
\* req and task are bags of handler activations: a record holds the position
\* (pc) and the local variables of one activation.
NewReq == [pc |-> "gotUser", userId |-> 0, roundId |-> 0, amount |-> 0,
           user |-> 0, endTime |-> 0, betId |-> 0, res |-> ""]

NewTask == [pc |-> "", caller |-> "", round |-> NoRound, result |-> "",
            snap |-> <<>>, user |-> 0]

One(x) == SetToBag({x})
Swap(bag, old, new) == (bag (-) One(old)) (+) One(new)

Init ==
    /\ now = 0
    /\ users = [u \in UserIds |-> StartBalance]
    /\ gameRounds = <<>>
    /\ bets = <<>>
    /\ transactions = <<>>
    /\ req = EmptyBag
    \* setupGameEngine has called createNewRound, which awaits getActiveGameRound
    /\ task = One([NewTask EXCEPT !.pc = "cn_gotActive", !.caller = "setup"])
    /\ timeouts = {}
    /\ intervalDue = 0

(* ---------------------------- POST /api/bets -------------------------- *)
\* The body of a request is fixed when it arrives; each field is drawn here at
\* the step that first reads it, and a finished request keeps only its response.
Finished(res) == [NewReq EXCEPT !.pc = "done", !.res = res]

\* routes.ts 204-208: parse the body, call storage.getUser
BetStart(B) ==
    /\ BagCardinality(req) < B.reqs
    /\ \E u \in Bettors :
          req' = req (+) One([NewReq EXCEPT !.userId = u, !.user = users[u]])
    /\ UNCHANGED <<now, users, gameRounds, bets, transactions, task, timeouts, intervalDue>>

\* routes.ts 209-219: balance check, then call storage.getGameRound
BetCheckBalance(B, q) ==
    /\ q.pc = "gotUser"
    /\ \E rid \in 1..B.rounds, a \in BodyAmounts :
          /\ betSchema([roundId |-> rid, color |-> "red", amount |-> a])
          /\ IF InsufficientBalance(q.user, a)
             THEN req' = Swap(req, q, Finished("Insufficient balance"))
             ELSE req' = Swap(req, q, [q EXCEPT !.pc = "gotRound", !.amount = a,
                                                !.roundId = rid,
                                                !.endTime = getGameRoundEndTime(rid)])
    /\ UNCHANGED <<now, users, gameRounds, bets, transactions, task, timeouts, intervalDue>>

\* routes.ts 220-248: round found?, time check, potential, call storage.createBet
BetCreate(q) ==
    /\ q.pc = "gotRound"
    /\ IF q.endTime = NoRound
       THEN /\ req' = Swap(req, q, Finished("Game round not found"))
            /\ UNCHANGED bets
       ELSE IF RoundEnded(now, q.endTime)
       THEN /\ req' = Swap(req, q, Finished("Betting for this round has ended"))
            /\ UNCHANGED bets
       ELSE \E c \in BodyColors :
            /\ betSchema([roundId |-> q.roundId, color |-> c, amount |-> q.amount])
            /\ bets' = createBet([id |-> 0, createdAt |-> 0, userId |-> q.userId,
                                  roundId |-> q.roundId, color |-> c,
                                  amount |-> q.amount,
                                  potential |-> Potential(c, q.amount),
                                  status |-> "pending", profit |-> NoProfit])
            /\ req' = Swap(req, q, [q EXCEPT !.pc = "createdBet", !.betId = Len(bets) + 1])
    /\ UNCHANGED <<now, users, gameRounds, transactions, task, timeouts, intervalDue>>

\* routes.ts 250-256: debit, computed from the user read at the start
BetUpdateUser(q) ==
    /\ q.pc = "createdBet"
    /\ users' = updateUser(q.userId, BetBalanceAfter(q.user, q.amount))
    /\ req' = Swap(req, q, [q EXCEPT !.pc = "updatedUser"])
    /\ UNCHANGED <<now, gameRounds, bets, transactions, task, timeouts, intervalDue>>

\* routes.ts 258-268: storage.createTransaction; the 201 response that follows it
\* touches no state and is taken in the same step
BetTransaction(q) ==
    /\ q.pc = "updatedUser"
    /\ transactions' = createTransaction(
           [id |-> 0, userId |-> q.userId, amount |-> -q.amount, type |-> "bet",
            reference |-> q.betId, balanceBefore |-> q.user,
            balanceAfter |-> BetBalanceAfter(q.user, q.amount)])
    /\ req' = Swap(req, q, Finished("201"))
    /\ UNCHANGED <<now, users, gameRounds, bets, task, timeouts, intervalDue>>

(* ------------------------------ the clock ----------------------------- *)
\* Time passes; after B.time the clock jumps to LateTime(B).
Tick(B) ==
    /\ now < LateTime(B)
    /\ now' = IF now < B.time THEN now + 1 ELSE LateTime(B)
    /\ UNCHANGED <<users, gameRounds, bets, transactions, req, task, timeouts, intervalDue>>

\* setTimeout / setInterval with delay ROUND_DURATION_MS, called at t
Due(B, t) == IF t + ROUND_DURATION < LateTime(B) THEN t + ROUND_DURATION ELSE LateTime(B)

(* ------------------------------ completeRound ------------------------- *)
\* routes.ts 520-537: draw the result, call storage.updateGameRound.  Runs in the
\* caller's step: completeRound is entered synchronously.
CompleteRoundStart(caller, roundId, result) ==
    [NewTask EXCEPT !.pc = "cr_updatedRound", !.caller = caller,
                    !.round = roundId, !.result = result]

\* routes.ts 507-510: the round's own timer fires and calls completeRound(newRound)
TimeoutFire(B) ==
    /\ BagCardinality(task) < B.tasks
    /\ \E tm \in timeouts :
          /\ now >= tm.due
          /\ timeouts' = timeouts \ {tm}
          /\ \E k \in 1..Len(colors) :
                /\ gameRounds' = updateGameRound(tm.round, colors[k], Multiplier(colors[k]))
                /\ task' = task (+) One(CompleteRoundStart("timeout", tm.round, colors[k]))
    /\ UNCHANGED <<now, users, bets, transactions, req, intervalDue>>

\* routes.ts 539-540: call storage.getBetsByRound
CrGetBets(t) ==
    /\ t.pc = "cr_updatedRound"
    /\ task' = Swap(task, t, [t EXCEPT !.pc = "cr_loop", !.snap = getBetsByRound(t.round)])
    /\ UNCHANGED <<now, users, gameRounds, bets, transactions, req, timeouts, intervalDue>>

\* the bets still to visit: the snapshot from its first bet that is not skipped
RECURSIVE Todo(_)
Todo(snap) == IF snap = <<>> THEN <<>>
              ELSE IF Skipped(Head(snap)) THEN Todo(Tail(snap)) ELSE snap

\* routes.ts 542-547 and 579-582: skip the bets not pending when they were read and
\* call storage.getUser for the next one; after the last bet emit round-end and
\* return (to createNewRound when it was the caller)
CrLoop(t) ==
    /\ t.pc = "cr_loop"
    /\ LET todo == Todo(t.snap)
       IN IF todo = <<>>
          THEN task' = IF t.caller = "timeout" THEN task (-) One(t)
                       ELSE Swap(task, t, [NewTask EXCEPT !.pc = "cn_create",
                                                          !.caller = t.caller])
          ELSE task' = Swap(task, t, [t EXCEPT !.pc = "cr_gotUser", !.snap = todo,
                                               !.user = users[Head(todo).userId]])
    /\ UNCHANGED <<now, users, gameRounds, bets, transactions, req, timeouts, intervalDue>>

\* routes.ts 549-559 and 572-576: a won bet credits the user (storage.updateUser);
\* a lost bet is written back at once (storage.updateBet)
CrSettle(t) ==
    /\ t.pc = "cr_gotUser"
    /\ LET bet == Head(t.snap)
       IN IF Won(bet, t.result)
          THEN /\ users' = updateUser(bet.userId, WinBalance(t.user, bet))
               /\ task' = Swap(task, t, [t EXCEPT !.pc = "cr_updatedUser"])
               /\ UNCHANGED bets
          ELSE /\ bets' = updateBet(bet.id, "lost", 0)
               /\ task' = Swap(task, t, [t EXCEPT !.pc = "cr_loop", !.snap = Tail(@),
                                                  !.user = 0])
               /\ UNCHANGED users
    /\ UNCHANGED <<now, gameRounds, transactions, req, timeouts, intervalDue>>

\* routes.ts 561-569
CrTransaction(t) ==
    /\ t.pc = "cr_updatedUser"
    /\ LET bet == Head(t.snap)
       IN transactions' = createTransaction(
              [id |-> 0, userId |-> bet.userId, amount |-> bet.potential, type |-> "win",
               reference |-> gameRounds[t.round].roundNumber,
               balanceBefore |-> t.user,
               balanceAfter |-> WinBalance(t.user, bet)])
    /\ task' = Swap(task, t, [t EXCEPT !.pc = "cr_recorded"])
    /\ UNCHANGED <<now, users, gameRounds, bets, req, timeouts, intervalDue>>

\* routes.ts 572-576
CrUpdateBet(t) ==
    /\ t.pc = "cr_recorded"
    /\ LET bet == Head(t.snap)
       IN bets' = updateBet(bet.id, "won", WinProfit(bet))
    /\ task' = Swap(task, t, [t EXCEPT !.pc = "cr_loop", !.snap = Tail(@), !.user = 0])
    /\ UNCHANGED <<now, users, gameRounds, transactions, req, timeouts, intervalDue>>

(* ------------------------------ createNewRound ------------------------ *)
\* the model follows a createNewRound up to storage.createGameRound only while
\* the round fits the bounds
CanCreate(B) == Len(gameRounds) < B.rounds /\ now + ROUND_DURATION <= B.time

\* routes.ts 492-502: call storage.createGameRound
CreateRound(B, t) ==
    IF CanCreate(B)
    THEN /\ gameRounds' = createGameRound(now, now + ROUND_DURATION)
         /\ task' = Swap(task, t, [NewTask EXCEPT !.pc = "cn_created", !.caller = t.caller,
                                                  !.round = Len(gameRounds) + 1])
    ELSE /\ task' = task (-) One(t)
         /\ UNCHANGED gameRounds

\* routes.ts 480-487: the interval fires, createNewRound calls getActiveGameRound
IntervalFire(B) ==
    /\ intervalDue # 0
    /\ now >= intervalDue
    /\ now <= B.time
    /\ BagCardinality(task) < B.tasks
    /\ task' = task (+) One([NewTask EXCEPT !.pc = "cn_gotActive", !.caller = "interval",
                                            !.round = getActiveGameRound(now)])
    /\ intervalDue' = now + ROUND_DURATION
    /\ UNCHANGED <<now, users, gameRounds, bets, transactions, req, timeouts>>

\* routes.ts 488-502: an active round is completed first; otherwise the new round
\* is created at once
CnAfterGetActive(B, t) ==
    /\ t.pc = "cn_gotActive"
    /\ IF t.round # NoRound
       THEN \E k \in 1..Len(colors) :
               /\ gameRounds' = updateGameRound(t.round, colors[k], Multiplier(colors[k]))
               /\ task' = Swap(task, t, CompleteRoundStart(t.caller, t.round, colors[k]))
       ELSE CreateRound(B, t)
    /\ UNCHANGED <<now, users, bets, transactions, req, timeouts, intervalDue>>

\* routes.ts 489-502: completeRound has returned, create the new round
CnCreate(B, t) ==
    /\ t.pc = "cn_create"
    /\ CreateRound(B, t)
    /\ UNCHANGED <<now, users, bets, transactions, req, timeouts, intervalDue>>

\* routes.ts 504-512: emit round-start, schedule the round's completion, return
CnSchedule(B, t) ==
    /\ t.pc = "cn_created"
    /\ timeouts' = timeouts \cup {[round |-> t.round, due |-> Due(B, now)]}
    /\ task' = IF t.caller = "setup"
               THEN Swap(task, t, [NewTask EXCEPT !.pc = "setup_resume", !.caller = "setup"])
               ELSE task (-) One(t)
    /\ UNCHANGED <<now, users, gameRounds, bets, transactions, req, intervalDue>>

\* setupGameEngine returning without setInterval
SetupNoInterval(t) ==
    /\ t.pc = "setup_resume"
    /\ intervalDue' = 0
    /\ task' = task (-) One(t)
    /\ UNCHANGED <<now, users, gameRounds, bets, transactions, req, timeouts>>

\* routes.ts 476-482: setupGameEngine resumes after the first round and starts
\* the interval
SetupInterval(t) ==
    /\ t.pc = "setup_resume"
    /\ intervalDue' = now + ROUND_DURATION
    /\ task' = task (-) One(t)
    /\ UNCHANGED <<now, users, gameRounds, bets, transactions, req, timeouts>>

(* ------------------------------ specification ------------------------- *)
NextFor(B) ==
    \/ Tick(B)
    \/ TimeoutFire(B)
    \/ IntervalFire(B)
    \/ BetStart(B)
    \/ \E q \in BagToSet(req) : BetCheckBalance(B, q)
    \/ \E q \in BagToSet(req) : BetCreate(q)
    \/ \E q \in BagToSet(req) : BetUpdateUser(q)
    \/ \E q \in BagToSet(req) : BetTransaction(q)
    \/ \E t \in BagToSet(task) : CrGetBets(t)
    \/ \E t \in BagToSet(task) : CrLoop(t)
    \/ \E t \in BagToSet(task) : CrSettle(t)
    \/ \E t \in BagToSet(task) : CrTransaction(t)
    \/ \E t \in BagToSet(task) : CrUpdateBet(t)
    \/ \E t \in BagToSet(task) : CnAfterGetActive(B, t)
    \/ \E t \in BagToSet(task) : CnCreate(B, t)
    \/ \E t \in BagToSet(task) : CnSchedule(B, t)
    \/ \E t \in BagToSet(task) : SetupInterval(t)

Next == NextFor(Bounds)
Spec == Init /\ [][Next]_vars

NextRace == NextFor(RaceBounds)
SpecRace == Init /\ [][NextRace]_vars

NextTwo == NextFor(TwoBounds)
SpecTwo == Init /\ [][NextTwo]_vars

NextEarly == NextFor(EarlyBounds)
SpecEarly == Init /\ [][NextEarly]_vars

\* the engine's steps: timer callbacks and the continuations of their awaits
EngineFor(B) ==
    \/ TimeoutFire(B)
    \/ IntervalFire(B)
    \/ \E t \in BagToSet(task) :
          \/ CrGetBets(t) \/ CrLoop(t) \/ CrSettle(t) \/ CrTransaction(t) \/ CrUpdateBet(t)
          \/ CnAfterGetActive(B, t) \/ CnCreate(B, t) \/ CnSchedule(B, t) \/ SetupInterval(t)

\* Time passes, every due timer callback is run and every await is resumed.
SpecLive == Init /\ [][Next]_vars /\ WF_vars(Tick(Bounds)) /\ WF_vars(EngineFor(Bounds))

(* ------------------------------ vocabulary ---------------------------- *)
EndedResponse == "Betting for this round has ended"

BetIds == 1..Len(bets)
TxIds == 1..Len(transactions)
Terminal(status) == status \in {"won", "lost"}

\* no bet request and no engine handler is in flight
Quiescent == task = EmptyBag /\ \A q \in BagToSet(req) : q.pc = "done"

\* completeRound has started on the round: its first step stores a result
SettlementStarted(roundId) == gameRounds[roundId].result # ""

RECURSIVE Sum(_)
\* the sum of a sequence of numbers
Sum(seq) == IF seq = <<>> THEN 0 ELSE Head(seq) + Sum(Tail(seq))

\* the stakes of the user's bets, the potentials of the user's won bets
Stakes(u) == Sum([i \in BetIds |-> IF bets[i].userId = u THEN bets[i].amount ELSE 0])
WonPotentials(u) ==
    Sum([i \in BetIds |-> IF bets[i].userId = u /\ bets[i].status = "won"
                          THEN bets[i].potential ELSE 0])

TxOf(u) == SelectSeq(transactions, LAMBDA x : x.userId = u)

(* -------------------------------- claims ------------------------------ *)
\* C1: a bet request whose time check happens at or after the end time of its round
\* is answered "Betting for this round has ended" and changes no balance, no bet and
\* no transaction; no stored bet was created at or after the end of its round.
C1_LateBetRejected ==
    /\ [][\A q \in BagToSet(req) :
             (BetCreate(q) /\ q.endTime # NoRound /\ now >= gameRounds[q.roundId].endTime)
             => /\ req' = Swap(req, q, Finished(EndedResponse))
                /\ UNCHANGED <<users, bets, transactions>>]_vars
    /\ [](\A i \in BetIds : bets[i].createdAt < gameRounds[bets[i].roundId].endTime)

C1_Witness == \E q \in BagToSet(req) : q.res = EndedResponse

\* C2: no bet is created and no stake is debited for a round once settlement of
\* that round has started.
C2_NoIntakeDuringSettlement ==
    [][\A q \in BagToSet(req) :
          ((BetCreate(q) /\ bets' # bets) \/ BetUpdateUser(q))
          => ~SettlementStarted(q.roundId)]_vars

\* C3: a bet that has left pending keeps its status, and a user never has more
\* win transactions for a round than bets on that round.
C3_WinsAtMostOnce ==
    \A u \in UserIds : \A r \in 1..Len(gameRounds) :
        Cardinality({i \in TxIds : /\ transactions[i].type = "win"
                                   /\ transactions[i].userId = u
                                   /\ transactions[i].reference = gameRounds[r].roundNumber})
        <= Cardinality({i \in BetIds : bets[i].userId = u /\ bets[i].roundId = r})

C3_SettledOnce ==
    /\ [][\A i \in BetIds : Terminal(bets[i].status) => bets'[i].status = bets[i].status]_vars
    /\ []C3_WinsAtMostOnce

\* C4: once every request and every settlement has finished, each balance is the
\* starting balance minus the stakes of the user's bets plus the potentials of the
\* user's won bets.
C4_BalanceAccounting ==
    Quiescent => \A u \in UserIds :
                    users[u] = StartBalance - Stakes(u) + WonPotentials(u)

\* C5: every stored balance is at least zero.
C5_BalanceNonNegative == \A u \in UserIds : users[u] >= 0

\* a stake has been debited and its transaction recorded
C5_Witness ==
    /\ \E u \in Bettors : \E i \in BetIds :
          bets[i].userId = u /\ users[u] = StartBalance - bets[i].amount
    /\ \E i \in TxIds : transactions[i].type = "bet"

\* C6: when a stake is debited, the user's stored balance covers it.
C6_StakeCovered ==
    [][\A q \in BagToSet(req) : BetUpdateUser(q) => users[q.userId] >= q.amount]_vars

\* C7: in a quiescent state the transactions of each user, in creation order, chain:
\* each balanceAfter is the next balanceBefore, and the last balanceAfter is the
\* stored balance.
C7_TransactionChain ==
    Quiescent => \A u \in UserIds :
        LET txs == TxOf(u)
        IN /\ \A k \in 1..(Len(txs) - 1) : txs[k].balanceAfter = txs[k + 1].balanceBefore
           /\ Len(txs) > 0 => txs[Len(txs)].balanceAfter = users[u]

\* C8: every transaction has balanceAfter = balanceBefore + amount; the amount of a
\* bet transaction is the negated stake of its bet, the amount of a win transaction
\* is the potential of a bet of that user on that round.
C8_TransactionArithmetic ==
    \A i \in TxIds :
        LET x == transactions[i]
        IN /\ x.balanceAfter = x.balanceBefore + x.amount
           /\ x.type \in {"bet", "win"}
           /\ x.type = "bet" =>
                 /\ x.reference \in BetIds
                 /\ bets[x.reference].userId = x.userId
                 /\ x.amount = -bets[x.reference].amount
           /\ x.type = "win" =>
                 \E j \in BetIds :
                    /\ bets[j].userId = x.userId
                    /\ gameRounds[bets[j].roundId].roundNumber = x.reference
                    /\ x.amount = bets[j].potential

C8_Witness ==
    \E i, j \in TxIds :
        /\ transactions[i].type = "bet" /\ transactions[i].amount = -600
        /\ transactions[j].type = "win" /\ transactions[j].amount = Potential("violet", 600)

\* C9: when completeRound returns for a round, no bet on that round is pending.
C9_NoPendingAfterSettlement ==
    [][\A t \in BagToSet(task) :
          (t.pc = "cr_loop" /\ Todo(t.snap) = <<>> /\ CrLoop(t))
          => \A i \in BetIds : bets[i].roundId = t.round => bets[i].status # "pending"]_vars

CompleteRoundPcs == {"cr_updatedRound", "cr_loop", "cr_gotUser", "cr_updatedUser", "cr_recorded"}

RoundIds == 1..Len(gameRounds)

\* some completeRound call on the round has not returned yet
Settling(roundId) ==
    \E t \in BagToSet(task) : t.round = roundId /\ t.pc \in CompleteRoundPcs

\* completeRound has run on the round and no call on it is in progress
Settled(roundId) == SettlementStarted(roundId) /\ ~Settling(roundId)

\* the amounts of the win transactions recorded for the round
WinCredits(roundId) ==
    Sum([i \in TxIds |-> IF /\ transactions[i].type = "win"
                            /\ transactions[i].reference = gameRounds[roundId].roundNumber
                         THEN transactions[i].amount ELSE 0])

\* the potentials of the round's bets with status won
WonPayouts(roundId) ==
    Sum([i \in BetIds |-> IF bets[i].roundId = roundId /\ bets[i].status = "won"
                          THEN bets[i].potential ELSE 0])

\* C11: for every settled round the win transactions of the round add up to the
\* potentials of its won bets, and each of its bets is won or lost.
C11_RoundLedger ==
    \A r \in RoundIds :
        Settled(r) => /\ WinCredits(r) = WonPayouts(r)
                      /\ \A i \in BetIds : bets[i].roundId = r => Terminal(bets[i].status)

\* C12: a completeRound call that starts on a round already settled changes nothing:
\* the round keeps its result and multiplier, and no balance, bet or transaction
\* is written.
C12_SecondRunNoOp ==
    [][\A r \in RoundIds :
          (Settled(r) /\ Settling(r)')
          => /\ gameRounds'[r] = gameRounds[r]
             /\ UNCHANGED <<users, bets, transactions>>]_vars

\* C13: when completeRound resolves a pending bet whose colour is the result, the
\* owner's stored balance grows by the bet's potential, one win transaction of that
\* amount is appended, and the bet becomes won with profit potential - amount.
C13_WonSettlement ==
    /\ [][\A t \in BagToSet(task) :
             LET bet == Head(t.snap)
             IN (CrSettle(t) /\ bet.color = t.result /\ bets[bet.id].status = "pending")
                => users'[bet.userId] = users[bet.userId] + bet.potential]_vars
    /\ [][\A t \in BagToSet(task) :
             LET bet == Head(t.snap)
             IN CrTransaction(t)
                => /\ Len(transactions') = Len(transactions) + 1
                   /\ transactions'[Len(transactions')].type = "win"
                   /\ transactions'[Len(transactions')].userId = bet.userId
                   /\ transactions'[Len(transactions')].amount = bet.potential]_vars
    /\ [][\A t \in BagToSet(task) :
             LET bet == Head(t.snap)
             IN CrUpdateBet(t)
                => /\ bets'[bet.id].status = "won"
                   /\ bets'[bet.id].profit = bet.potential - bet.amount]_vars

\* C14: when completeRound resolves a pending bet whose colour is not the result,
\* the bet becomes lost with profit 0, no balance and no transaction is written, and
\* the loop goes on to the next bet; a lost bet always has profit 0.
C14_LostSettlement ==
    /\ [][\A t \in BagToSet(task) :
             LET bet == Head(t.snap)
             IN (CrSettle(t) /\ bet.color # t.result /\ bets[bet.id].status = "pending")
                => /\ bets'[bet.id].status = "lost"
                   /\ bets'[bet.id].profit = 0
                   /\ UNCHANGED <<users, transactions>>
                   /\ \E n \in BagToSet(task') : n.pc = "cr_loop" /\ n.snap = Tail(t.snap)]_vars
    /\ [](\A i \in BetIds : bets[i].status = "lost" => bets[i].profit = 0)

\* a debited bet has been resolved as lost and its owner has the debited balance
C14_Witness ==
    \E i \in BetIds :
        /\ bets[i].status = "lost"
        /\ users[bets[i].userId] = StartBalance - bets[i].amount
        /\ \A k \in TxIds : transactions[k].type = "bet"
        /\ transactions # <<>>

\* the rounds without a result whose end time is still ahead
OpenRounds == {r \in RoundIds : gameRounds[r].result = "" /\ now < gameRounds[r].endTime}

\* C15: at any instant at most one round is undecided with its end time ahead.
C15_SingleOpenRound == Cardinality(OpenRounds) <= 1

\* the round scheduler alone: no bet is placed, so completeRound finds none
RoundsFor(B) ==
    \/ Tick(B)
    \/ TimeoutFire(B)
    \/ IntervalFire(B)
    \/ \E t \in BagToSet(task) : CrGetBets(t)
    \/ \E t \in BagToSet(task) : CrLoop(t)
    \/ \E t \in BagToSet(task) : CnAfterGetActive(B, t)
    \/ \E t \in BagToSet(task) : CnCreate(B, t)
    \/ \E t \in BagToSet(task) : CnSchedule(B, t)
    \/ \E t \in BagToSet(task) : SetupInterval(t)

\* two createNewRound handlers in flight over three rounds
OverlapBounds == [Bounds EXCEPT !.tasks = 2, !.rounds = MaxRounds + 2, !.time = MaxTime + 2]
NextOverlap == RoundsFor(OverlapBounds)
SpecOverlap == Init /\ [][NextOverlap]_vars

\* C16: once a round has a result, no step changes its result or multiplier.
C16_RoundImmutable ==
    [][\A r \in RoundIds :
          gameRounds[r].result # "" =>
             /\ gameRounds'[r].result = gameRounds[r].result
             /\ gameRounds'[r].multiplier = gameRounds[r].multiplier]_vars

\* a step that enters completeRound for the round: one more handler stands just
\* after the updateGameRound of routes.ts 534-537
ClosureStarts(roundId) ==
    \E n \in BagToSet(task') :
       /\ n.round = roundId
       /\ n.pc = "cr_updatedRound"
       /\ CopiesIn(n, task') > CopiesIn(n, task)

\* C17: the closure of a round is started at most once, whichever of its timeout
\* and the next interval callback comes first.
C17_ClosedOnce ==
    [][\A r \in RoundIds : ClosureStarts(r) => ~SettlementStarted(r)]_vars

\* the bets of the round still pending
PendingOf(roundId) == {i \in BetIds : bets[i].roundId = roundId /\ bets[i].status = "pending"}

\* C18: a round is created only when every earlier round whose end time has
\* passed has a result and no pending bet.
C18_ClosureBeforeOpening ==
    [][Len(gameRounds') > Len(gameRounds) =>
          \A r \in RoundIds :
             gameRounds[r].endTime < now =>
                /\ gameRounds[r].result # ""
                /\ PendingOf(r) = {}]_vars

(* ------------------- a store call of completeRound rejects ------------ *)
\* the store calls are Promises of the IStorage interface; one that rejects inside
\* completeRound is caught at routes.ts 583-585
Caught == "error"

\* routes.ts 583-585: the store call that completeRound makes next rejects before it
\* changes the store; the catch logs the error and completeRound returns.  A
\* createNewRound that awaited it goes on at routes.ts 492 with activeRound in scope.
CrThrow(t) ==
    /\ t.pc \in CompleteRoundPcs
    /\ t.pc = "cr_loop" => Todo(t.snap) # <<>>
    /\ task' = IF t.caller = "timeout" THEN task (-) One(t)
               ELSE Swap(task, t, [NewTask EXCEPT !.pc = "cn_create", !.caller = t.caller,
                                                  !.round = t.round, !.result = Caught])
    /\ UNCHANGED <<now, users, gameRounds, bets, transactions, req, timeouts, intervalDue>>

\* one more round, created by the interval after a failed settlement
FailBounds == [Bounds EXCEPT !.rounds = MaxRounds + 1, !.time = MaxTime + 1]
NextFail ==
    \/ NextFor(FailBounds)
    \/ \E t \in BagToSet(task) : CrThrow(t)
SpecFail == Init /\ [][NextFail]_vars

\* C19: after the settlement of a round has failed inside createNewRound, no round
\* is created while that round still has a pending bet.
C19_FailClosed ==
    [][\A t \in BagToSet(task) :
          (t.pc = "cn_create" /\ t.result = Caught /\ Len(gameRounds') > Len(gameRounds))
             => PendingOf(t.round) = {}]_vars

(* ------------------------------ process restart ----------------------- *)
\* a request in flight when the process stops gets no response
Dropped(q) == IF q.pc = "done" THEN q ELSE Finished("")

\* routes.ts 472-487: the process stops and starts again over a store that kept its
\* contents (an IStorage implementation that persists; the account set-up of
\* routes.ts 37-41 tests for such a store).  Handlers in flight and timers are
\* gone; setupGameEngine calls createNewRound, which awaits getActiveGameRound.
Restart(B) ==
    /\ now <= B.time
    /\ task' = One([NewTask EXCEPT !.pc = "cn_gotActive", !.caller = "setup",
                                   !.round = getActiveGameRound(now)])
    /\ req' = BagOfAll(Dropped, req)
    /\ timeouts' = {}
    /\ intervalDue' = 0
    /\ UNCHANGED <<now, users, gameRounds, bets, transactions>>

\* one more round, created after the restart
RestartBounds == [Bounds EXCEPT !.rounds = MaxRounds + 1, !.time = MaxTime + 2]
NextRestart ==
    \/ RoundsFor(RestartBounds)
    \/ Restart(RestartBounds)
SpecRestart == Init /\ [][NextRestart]_vars

\* C20: the start-up createNewRound creates a round only when every stored round
\* whose end time has passed has a result and no pending bet.
C20_RecoveryFirst ==
    [][\A t \in BagToSet(task) :
          (t.caller = "setup" /\ Len(gameRounds') > Len(gameRounds)) =>
             \A r \in RoundIds :
                gameRounds[r].endTime < now =>
                   /\ gameRounds[r].result # ""
                   /\ PendingOf(r) = {}]_vars

\* C21: while the start-up createNewRound runs, a stored round that is still open
\* (no result, end time ahead) keeps its empty result and no round is created.
C21_OpenRoundResumed ==
    [][\A t \in BagToSet(task) :
          t.caller = "setup" =>
             \A r \in OpenRounds :
                /\ gameRounds'[r].result = ""
                /\ Len(gameRounds') = Len(gameRounds)]_vars

(* --------------------------- admin: force-round ----------------------- *)
\* multipliers as the request body carries them, and what parseFloat makes of them
MultiplierTexts == {"2", "4"}
parseFloat(text) == CASE text = "2" -> 2 [] text = "4" -> 4

\* the response of a finished force-round request: the updated round
Forced(round) == [pc |-> "done", res |-> "200", round |-> round]

\* routes.ts 403-435: POST /api/admin/force-round by the admin session.  The one
\* store write is storage.updateGameRound at 416-419; the round is looked up first
\* (410-413) and rounds are never removed, so the handler is taken at its write.
\* The audit log entry (421-427) is read by no handler of the model.
ForceRound(B) ==
    /\ BagCardinality(req) < B.reqs
    /\ \E roundId \in 1..B.rounds, result \in BetColors, multiplier \in MultiplierTexts :
          IF roundId > Len(gameRounds)
          THEN /\ req' = req (+) One(Finished("Round not found"))
               /\ UNCHANGED gameRounds
          ELSE /\ gameRounds' = updateGameRound(roundId, result, parseFloat(multiplier))
               /\ req' = req (+) One(Forced(gameRounds'[roundId]))
    /\ UNCHANGED <<now, users, bets, transactions, task, timeouts, intervalDue>>

\* a bet request and an admin request, or two of either
ForceBounds == [Bounds EXCEPT !.reqs = MaxReq + 1]
NextForce ==
    \/ NextFor(ForceBounds)
    \/ ForceRound(ForceBounds)
SpecForce == Init /\ [][NextForce]_vars

\* the round's stored result is the one a force-round request has set
HasForcedResult(roundId) ==
    \E q \in BagToSet(req) :
       /\ "round" \in DOMAIN q
       /\ q.round.id = roundId
       /\ q.round.result = gameRounds[roundId].result

\* C22: a completeRound entered on a round whose stored result was forced keeps
\* that result and settles the bets against it.
C22_ForcedResultKept ==
    [][\A r \in RoundIds :
          (HasForcedResult(r) /\ ClosureStarts(r)) =>
             /\ gameRounds'[r].result = gameRounds[r].result
             /\ \A n \in BagToSet(task') :
                   (n.round = r /\ n.pc = "cr_updatedRound") => n.result = gameRounds[r].result]_vars

\* the round has a bet that has been settled
HasSettledBet(roundId) == \E i \in BetIds : bets[i].roundId = roundId /\ Terminal(bets[i].status)

\* C23: a force-round request on a round with settled bets leaves the round's
\* result as it was, or starts a settlement of the round.
C23_ForceAfterSettlement ==
    [][ForceRound(ForceBounds) =>
          \A r \in RoundIds :
             HasSettledBet(r) =>
                \/ gameRounds'[r].result = gameRounds[r].result
                \/ ClosureStarts(r)]_vars

\* C24: a bet request whose round already has a result when the round is checked
\* is answered "Betting for this round has ended" and creates no bet, whatever
\* the time.
C24_DecidedRoundClosed ==
    [][\A q \in BagToSet(req) :
          (BetCreate(q) /\ q.endTime # NoRound /\ gameRounds[q.roundId].result # "")
          => /\ req' = Swap(req, q, Finished(EndedResponse))
             /\ UNCHANGED bets]_vars

InsufficientResponse == "Insufficient balance"

\* C25: the round checks come before the balance check: a request is answered
\* "Insufficient balance" only when a stored round is open for betting.
C25_RoundCheckedFirst ==
    [][\A q \in BagToSet(req) :
          (BetCheckBalance(Bounds, q) /\ req' = Swap(req, q, Finished(InsufficientResponse)))
          => \E r \in RoundIds : ~RoundEnded(now, gameRounds[r].endTime)]_vars

\* C26: the balance check changes no balance, bet or transaction, and a request
\* passes it only with a stake the user's balance covers.
C26_InsufficientRejected ==
    [][\A q \in BagToSet(req) :
          BetCheckBalance(TwoBounds, q) =>
             /\ UNCHANGED <<users, bets, transactions>>
             /\ \A n \in BagToSet(req') :
                   (n.pc = "gotRound" /\ CopiesIn(n, req') > CopiesIn(n, req))
                   => n.amount <= users[n.userId]]_vars

\* the same with the balance the handler has read at routes.ts 208
C26_ReadBalance ==
    [][\A q \in BagToSet(req) :
          BetCheckBalance(TwoBounds, q) =>
             /\ UNCHANGED <<users, bets, transactions>>
             /\ \A n \in BagToSet(req') :
                   (n.pc = "gotRound" /\ CopiesIn(n, req') > CopiesIn(n, req))
                   => n.amount <= n.user]_vars

FailedResponse == "Failed to place bet"

\* routes.ts 269-277: the store call that the handler makes next rejects before it
\* changes the store; the catch answers 500 and nothing that was written before is
\* taken back
BetThrow(q) ==
    /\ q.pc # "done"
    /\ req' = Swap(req, q, Finished(FailedResponse))
    /\ UNCHANGED <<now, users, gameRounds, bets, transactions, task, timeouts, intervalDue>>

NextAbort ==
    \/ NextFor(Bounds)
    \/ \E q \in BagToSet(req) : BetThrow(q)
    \/ \E t \in BagToSet(task) : CrThrow(t)
SpecAbort == Init /\ [][NextAbort]_vars

\* the user has a bet that is still pending
HasPendingBet(u) == \E i \in BetIds : bets[i].userId = u /\ bets[i].status = "pending"

\* C28: once every handler has returned, whether or not a store call has failed,
\* every stored bet has its debit transaction, and the balance of a user who has
\* a pending bet holds no credit beyond the user's won bets.
C28_AllOrNothing ==
    Quiescent =>
       /\ \A i \in BetIds :
             \E k \in TxIds : /\ transactions[k].type = "bet"
                              /\ transactions[k].reference = i
       /\ \A u \in UserIds :
             HasPendingBet(u) => users[u] = StartBalance - Stakes(u) + WonPotentials(u)

(* ----------------------- POST /api/bets: invalid body ------------------ *)
InvalidResponse == "Invalid input"

\* routes.ts 205 and 269-274: betSchema.parse throws a ZodError on the body before
\* the first store call; the catch answers 400 "Invalid input"
BetInvalid(B) ==
    /\ BagCardinality(req) < B.reqs
    /\ \E rid \in 1..B.rounds, c \in BodyColors, a \in BodyAmounts :
          ~betSchema([roundId |-> rid, color |-> c, amount |-> a])
    /\ req' = req (+) One(Finished(InvalidResponse))
    /\ UNCHANGED <<now, users, gameRounds, bets, transactions, task, timeouts, intervalDue>>

NextInput ==
    \/ NextFor(Bounds)
    \/ BetInvalid(Bounds)
SpecInput == Init /\ [][NextInput]_vars

\* C29: a request whose body has a stake that is not positive or a colour outside
\* red, green, violet is answered "Invalid input" in its first step and changes no
\* balance, bet or transaction: no request past the balance check and no stored
\* bet carries such a stake or colour.
C29_InvalidInputRejected ==
    /\ [][BetInvalid(Bounds) => UNCHANGED <<users, bets, transactions>>]_vars
    /\ [](\A q \in BagToSet(req) :
             q.pc \in {"gotRound", "createdBet", "updatedUser"} => q.amount > 0)
    /\ [](\A i \in BetIds : bets[i].amount > 0 /\ bets[i].color \in Colors)

\* an invalid request has been answered and nothing is stored for it
C29_Witness ==
    /\ \E q \in BagToSet(req) : q.res = InvalidResponse
    /\ bets = <<>>
    /\ transactions = <<>>
    /\ \A u \in UserIds : users[u] = StartBalance

(* ------------------------ admin: update a user ------------------------ *)
\* balances an admin request body carries
AdminBalances == {5000}

\* the response of a finished user update: the updated user
Updated(userId, balance) ==
    [NewReq EXCEPT !.pc = "done", !.res = "200", !.userId = userId, !.user = balance]

\* routes.ts 370-400: PATCH /api/admin/users/:userId by the admin session with a
\* balance in the body.  The one store write is storage.updateUser at 383, which
\* merges the body into the user (storage.ts 111-123); the user is looked up first
\* (378-381) and users are never removed, so the handler is taken at its write.
\* The audit log entry (385-390) is read by no handler of the model.
AdminUpdateUser(B) ==
    /\ BagCardinality(req) < B.reqs
    /\ \E userId \in UserIds \cup {3}, balance \in AdminBalances :
          IF userId \notin UserIds
          THEN /\ req' = req (+) One(Finished("User not found"))
               /\ UNCHANGED users
          ELSE /\ users' = updateUser(userId, balance)
               /\ req' = req (+) One(Updated(userId, balance))
    /\ UNCHANGED <<now, gameRounds, bets, transactions, task, timeouts, intervalDue>>

NextPatch ==
    \/ NextFor(Bounds)
    \/ AdminUpdateUser(Bounds)
SpecPatch == Init /\ [][NextPatch]_vars

\* C30: a step that changes a balance is the debit of a bet request or the win
\* credit of a settlement.
C30_BalanceWriters ==
    [][users' # users =>
          \/ \E q \in BagToSet(req) : BetUpdateUser(q)
          \/ \E t \in BagToSet(task) : CrSettle(t)]_vars

\* C31: the k-th stored round has round number k, so round numbers are distinct
\* and grow with the order of creation.
C31_RoundNumbers ==
    \A k \in RoundIds :
       /\ gameRounds[k].roundNumber = k
       /\ \A j \in 1..(k - 1) : gameRounds[j].roundNumber < gameRounds[k].roundNumber

\* two overlapping createNewRound calls have created rounds at the same instant
C31_Witness ==
    \E j, k \in RoundIds :
       /\ j < k
       /\ gameRounds[j].startTime = gameRounds[k].startTime
       /\ gameRounds[j].roundNumber + 1 = gameRounds[k].roundNumber

(* ----------------------- the scheduler with prompt timers -------------- *)
\* no handler is in flight and no timer callback is due
TimersIdle ==
    /\ task = EmptyBag
    /\ \A tm \in timeouts : now < tm.due
    /\ intervalDue = 0 \/ now < intervalDue

\* the clock advances only between callbacks: a due timer callback runs, and the
\* handler it starts returns, before the next period has passed
PromptBounds == [Bounds EXCEPT !.rounds = MaxRounds + 2, !.time = MaxTime + 3]
PromptFor(B) ==
    \/ TimersIdle /\ Tick(B)
    \/ TimeoutFire(B)
    \/ IntervalFire(B)
    \/ \E t \in BagToSet(task) : CrGetBets(t)
    \/ \E t \in BagToSet(task) : CrLoop(t)
    \/ \E t \in BagToSet(task) : CnAfterGetActive(B, t)
    \/ \E t \in BagToSet(task) : CnCreate(B, t)
    \/ \E t \in BagToSet(task) : CnSchedule(B, t)
    \/ \E t \in BagToSet(task) : SetupInterval(t)
NextPrompt == PromptFor(PromptBounds)
SpecPrompt ==
    /\ Init
    /\ [][NextPrompt]_vars
    /\ WF_vars(TimersIdle /\ Tick(PromptBounds))
    /\ WF_vars(EngineFor(PromptBounds))

\* C32: with timers served promptly, whenever no round is open and the bounds leave
\* room for one, a round is eventually created; a round is created with no result,
\* start = now and end = now + period; every created round eventually has a result.
C32_RoundLoopLive ==
    /\ \A n \in 0..(PromptBounds.rounds - 1) :
          (Len(gameRounds) = n /\ OpenRounds = {}) ~> (Len(gameRounds) > n)
    /\ [][Len(gameRounds') > Len(gameRounds) =>
             LET round == gameRounds'[Len(gameRounds')]
             IN /\ Len(gameRounds') = Len(gameRounds) + 1
                /\ round.result = ""
                /\ round.startTime = now
                /\ round.endTime = now + ROUND_DURATION]_vars
    /\ \A k \in 1..PromptBounds.rounds :
          (Len(gameRounds) >= k) ~> (Len(gameRounds) >= k /\ gameRounds[k].result # "")

\* the last round the bounds allow has been created after the one before it ended,
\* and has its result
C32_Witness ==
    /\ Len(gameRounds) = PromptBounds.rounds
    /\ gameRounds[Len(gameRounds)].startTime >= gameRounds[Len(gameRounds) - 1].endTime
    /\ gameRounds[Len(gameRounds)].result # ""

\* the steps that emit: round-start at routes.ts 505, round-end at routes.ts 580
EmitsRoundStart(B, t) == t.pc = "cn_created" /\ CnSchedule(B, t)
EmitsRoundEnd(t) == t.pc = "cr_loop" /\ Todo(t.snap) = <<>> /\ CrLoop(t)

\* C33: round-start is emitted for a stored round; round-end is emitted when the
\* round's stored result and multiplier are the ones the payload carries, and a
\* bet leaves the list that completeRound has read only when it is won or lost.
C33_EventsOrdered ==
    [][\A t \in BagToSet(task) :
          /\ EmitsRoundStart(RaceBounds, t) => t.round \in RoundIds
          /\ EmitsRoundEnd(t) =>
                /\ gameRounds[t.round].result = t.result
                /\ gameRounds[t.round].multiplier = Multiplier(t.result)
          /\ \A n \in BagToSet(task') :
                (t.pc \in CompleteRoundPcs /\ n.pc \in CompleteRoundPcs /\ t.snap # <<>>
                 /\ n.round = t.round /\ n.snap = Tail(t.snap)
                 /\ CopiesIn(n, task') > CopiesIn(n, task) /\ CopiesIn(t, task') < CopiesIn(t, task))
                => Terminal(bets'[Head(t.snap).id].status)]_vars

(* ------------------------- GET /api/admin/stats ----------------------- *)
\* the reducer that also counts the stake of a pending bet
HouseProfitStepPending(total, bet) ==
    IF bet.status = "lost" \/ bet.status = "pending" THEN total + bet.amount
    ELSE IF bet.status = "won" /\ bet.profit # NoProfit /\ bet.profit # 0
    THEN total - bet.profit
    ELSE total
\* storage.ts 265-272: the callback of reduce; `bet.profit` is falsy when it is
\* null (NoProfit) or 0
HouseProfitStep(total, bet) ==
    IF bet.status = "lost" THEN total + bet.amount
    ELSE IF bet.status = "won" /\ bet.profit # NoProfit /\ bet.profit # 0
    THEN total - bet.profit
    ELSE total

RECURSIVE reduce(_, _)
reduce(bs, total) ==
    IF bs = <<>> THEN total ELSE reduce(Tail(bs), HouseProfitStep(total, Head(bs)))

\* storage.ts 259-274
getTotalHouseProfit == reduce(bets, 0)

\* routes.ts 338-355: the statistics response
Stats == [pc |-> "done", res |-> "200", totalUsers |-> Cardinality(DOMAIN users),
          totalRounds |-> Len(gameRounds), totalBets |-> Len(bets),
          houseProfit |-> getTotalHouseProfit]

AdminStats(B) ==
    /\ BagCardinality(req) < B.reqs
    /\ req' = req (+) One(Stats)
    /\ UNCHANGED <<now, users, gameRounds, bets, transactions, task, timeouts, intervalDue>>

\* the stored wagers the function is applied to
MaxWagers == 3
\* a wager as POST /api/bets creates it and completeRound settles it
Wagers ==
    { [id |-> 0, createdAt |-> 0, userId |-> u, roundId |-> 1, color |-> c,
       amount |-> a, potential |-> Potential(c, a), status |-> st,
       profit |-> IF st = "pending" THEN NoProfit
                  ELSE IF st = "won" THEN Potential(c, a) - a ELSE 0] :
      u \in Bettors, c \in BetColors, a \in Amounts, st \in {"pending", "won", "lost"} }
WagerLists ==
    UNION { { [i \in 1..n |-> [f[i] EXCEPT !.id = i]] : f \in [1..n -> Wagers] } :
            n \in 0..MaxWagers }

InitStats ==
    /\ now = 0
    /\ users = [u \in UserIds |-> StartBalance]
    /\ gameRounds = <<>>
    /\ bets \in WagerLists
    /\ transactions = <<>>
    /\ req = EmptyBag
    /\ task = EmptyBag
    /\ timeouts = {}
    /\ intervalDue = 0

NextStats == AdminStats(Bounds)
SpecStats == InitStats /\ [][NextStats]_vars

LostStakes == Sum([i \in BetIds |-> IF bets[i].status = "lost" THEN bets[i].amount ELSE 0])
WonProfits == Sum([i \in BetIds |-> IF bets[i].status = "won" THEN bets[i].profit ELSE 0])
StatsResponses == {q \in BagToSet(req) : "houseProfit" \in DOMAIN q}

\* C34: the house profit that the statistics report is, for every list of
\* wagers, the stakes of the lost wagers minus the profits of the won ones;
\* pending wagers count for nothing
C34_HouseProfit ==
    \A q \in StatsResponses : q.houseProfit = LostStakes - WonProfits
C34_Witness ==
    /\ StatsResponses # {}
    /\ \E i, j, k \in BetIds :
          /\ bets[i].status = "lost"
          /\ bets[j].status = "won"
          /\ bets[k].status = "pending"

\* C35: with the scheduler alone, a won wager carries the colour stored as its
\* round's result and a lost wager a different one, however often completeRound
\* has run on the round
C35_OutcomesAgree ==
    \A i \in BetIds :
        LET stored == gameRounds[bets[i].roundId].result IN
        /\ bets[i].status = "won" => bets[i].color = stored
        /\ bets[i].status = "lost" => bets[i].color # stored

Balances == Sum([i \in 1..Cardinality(UserIds) |-> users[i]])
PendingStakes == Sum([i \in BetIds |-> IF bets[i].status = "pending" THEN bets[i].amount ELSE 0])

\* C36: when no bet request and no settlement is in progress, the balances of
\* all users, the stakes of the pending wagers and the house profit add up to
\* the balances the users started with
C36_MoneyConserved ==
    Quiescent =>
        Balances + PendingStakes + getTotalHouseProfit = Cardinality(UserIds) * StartBalance

\* C37: every round is either undecided (empty result, multiplier 0) or decided
\* with one of the colours and the multiplier of that colour, whether the draw
\* of completeRound or a force-round request decided it
C37_OutcomeWellFormed ==
    \A k \in RoundIds :
        \/ gameRounds[k].result = "" /\ gameRounds[k].multiplier = 0
        \/ /\ gameRounds[k].result \in Colors
           /\ gameRounds[k].multiplier = Multiplier(gameRounds[k].result)

\* C38: wagers and transactions are only ever appended: no step removes one, a
\* stored transaction is never changed, and on a stored wager nothing but status
\* and profit changes
C38_AppendOnly ==
    [][/\ Len(transactions') >= Len(transactions)
       /\ \A i \in TxIds : transactions'[i] = transactions[i]
       /\ Len(bets') >= Len(bets)
       /\ \A i \in BetIds :
             [bets'[i] EXCEPT !.status = bets[i].status, !.profit = bets[i].profit] = bets[i]]_vars
\* a settled wager next to its bet and win transactions
C38_Witness ==
    /\ \E i \in BetIds : bets[i].status = "won" /\ bets[i].profit > 0
    /\ \E i, j \in TxIds : i < j /\ transactions[i].type = "bet" /\ transactions[j].type = "win"

\* C39: the round that getActiveGameRound returns is undecided, a bet on it
\* passes the time check of the bet route at the same instant (also at
\* now = endTime), and it is the most recently created of the stored rounds that
\* contain the instant
C39_OpenAgreement ==
    LET active == getActiveGameRound(now) IN
    active # NoRound =>
        /\ gameRounds[active].result = ""
        /\ ~RoundEnded(now, gameRounds[active].endTime)
        /\ \A j \in RoundIds : IsActive(gameRounds[j], now) => j <= active
====
